---------------------------- MODULE Spec2Model ----------------------------
(***************************************************************************)
(* A model of src/src/main.cpp: the three sorting routines bubble_sort,    *)
(* shuttle_sort and quick_sort as they are run, one after the other on     *)
(* private copies of the same data, by test_sorting_algorithms, and the    *)
(* timer utility timevaldiff.                                              *)
(*                                                                         *)
(* Iterators are modelled as 0-based positions: v.begin() is 0 and v.end() *)
(* is Len(v).  Iterator arithmetic is integer arithmetic, so a position    *)
(* may leave 0..Len(v) (as begin()+1 or end()-1 do on an empty vector):    *)
(* forming such an iterator is computed as the pointer arithmetic that     *)
(* std::vector's pointer-backed iterators perform, without any check.      *)
(* Every dereference is recorded in the variable touched.                  *)
(*                                                                         *)
(* An element is a pair <<key, tag>>.  The ordering operators look at the  *)
(* key only, as operator< of class Cat looks at m_weight only; the tag is  *)
(* the element's place in the input, which tells equal keys apart.         *)
(***************************************************************************)
EXTENDS Integers, Sequences, FiniteSets

\* Bounds of the model: the longest input, the largest key, the largest
\* tv_sec.
MaxLen == 4
MaxKey == 4
MaxSec == 2

\* The two factors of timevaldiff: milliseconds in a second, microseconds in
\* a millisecond.
MSecPerSec == 1000
USecPerMSec == 1000

VARIABLES
    data,       \* the values read from the input file, in file order
    v1, v2, v3, \* the three copies handed to the three sorts
    pc,         \* where test_sorting_algorithms / the running sort stands
    b,          \* the locals of bubble_sort
    s,          \* the locals of shuttle_sort
    stack,      \* the activation records of quick_sort, innermost first
    out1, out2, \* the per-pass statistics of bubble_sort and shuttle_sort
    touched,    \* the positions dereferenced by the step just taken
    steps,      \* the number of steps taken so far
    t1, t2,     \* the two timestamps handed to timevaldiff
    msec,       \* the value timevaldiff returned
    tpc         \* where the timer run stands

vars == <<data, v1, v2, v3, pc, b, s, stack, out1, out2, touched, steps,
          t1, t2, msec, tpc>>

sortvars == <<data, v1, v2, v3, pc, b, s, stack, out1, out2, touched, steps>>
timevars == <<t1, t2, msec, tpc>>

-----------------------------------------------------------------------------
(* Elements and the vector operations the sorts use. *)

Key(x) == x[1]
Tag(x) == x[2]

\* *it for an iterator at position i.  A position outside the vector has no
\* element; <<0, 0>> stands for whatever such a read would yield, and the
\* properties below show that no step ever touches such a position.
At(v, i) == IF i \in 0..(Len(v) - 1) THEN v[i + 1] ELSE <<0, 0>>

\* *it = x
Put(v, i, x) == IF i \in 0..(Len(v) - 1) THEN [v EXCEPT ![i + 1] = x] ELSE v

LessOrEqual(x, y) == Key(x) <= Key(y)
\* operator< of the element type
Less(x, y) == Key(x) < Key(y)

GreaterOrEqual(x, y) == Key(x) >= Key(y)
\* operator> of the element type
Greater(x, y) == Key(x) > Key(y)

SwapLosesTmp(v, i, j) == Put(v, i, At(v, j))
\* tmp = *e1; *e1 = *e2; *e2 = tmp;
Swap(v, i, j) == Put(Put(v, i, At(v, j)), j, At(v, i))

\* The inputs: every sequence of at most MaxLen keys, each element tagged
\* with its place in the file.
Inputs ==
    UNION {{[i \in 1..n |-> <<k[i], i>>] : k \in [1..n -> 1..MaxKey]} : n \in 0..MaxLen}

BubbleLocals ==
    [e1 |-> 0, e2 |-> 0, end |-> 0, comparisons |-> 0, swaps |-> 0,
     swaps_total |-> 0, comparisons_total |-> 0, pass |-> 0]

ShuttleLocals ==
    [e1 |-> 0, e2 |-> 0, start_index |-> 0, n |-> 0, comparisons |-> 0,
     swaps |-> 0, swaps_total |-> 0, comparisons_total |-> 0, pass |-> 0]

-----------------------------------------------------------------------------
(* test_sorting_algorithms after the file is read: three equal vectors. *)

Init ==
    /\ data \in Inputs
    /\ v1 = data
    /\ v2 = data
    /\ v3 = data
    /\ pc = "call_bubble"
    /\ b = BubbleLocals
    /\ s = ShuttleLocals
    /\ stack = <<>>
    /\ out1 = <<>>
    /\ out2 = <<>>
    /\ touched = {}
    /\ steps = 0
    /\ t1 = <<0, 0>>
    /\ t2 = <<0, 0>>
    /\ msec = 0
    /\ tpc = "idle"

-----------------------------------------------------------------------------
(* bubble_sort(v1) *)

\* The call and the declarations before the loop.
BubbleEntry ==
    /\ pc = "call_bubble"
    /\ b' = [e1 |-> 0, e2 |-> 0 + 1, end |-> Len(v1), comparisons |-> 0,
             swaps |-> 0, swaps_total |-> 0, comparisons_total |-> 0,
             pass |-> 1]
    /\ pc' = "bubble_loop"
    /\ touched' = {}
    /\ steps' = steps + 1
    /\ UNCHANGED <<data, v1, v2, v3, s, stack, out1, out2, timevars>>

BubbleInnerCondInclusive == b.e2 <= b.end
\* The inner loop's condition: while (e2 < end)
BubbleInnerCond == b.e2 < b.end

\* One iteration of the inner loop: compare the pair, swap it when the right
\* element is less than the left one, move one place on.
BubbleCompare ==
    /\ pc = "bubble_loop"
    /\ BubbleInnerCond
    /\ LET swap == Less(At(v1, b.e2), At(v1, b.e1))
       IN  /\ v1' = IF swap THEN Swap(v1, b.e1, b.e2) ELSE v1
           /\ b' = [b EXCEPT !.comparisons = @ + 1,
                             !.swaps = IF swap THEN @ + 1 ELSE @,
                             !.e1 = @ + 1,
                             !.e2 = @ + 1]
    /\ touched' = {b.e1, b.e2}
    /\ steps' = steps + 1
    /\ UNCHANGED <<data, v2, v3, pc, s, stack, out1, out2, timevars>>

BubblePassEndTotalsAfterReset ==
    /\ pc = "bubble_loop"
    /\ ~BubbleInnerCond
    /\ out1' = Append(out1, [pass |-> b.pass, comparisons |-> b.comparisons,
                             swaps |-> b.swaps, end |-> b.end])
    /\ IF b.swaps = 0
          THEN /\ b' = [b EXCEPT !.e1 = 0, !.e2 = 0 + 1]
               /\ pc' = "bubble_done"
          ELSE /\ b' = [b EXCEPT !.e1 = 0, !.e2 = 0 + 1,
                                 !.comparisons = 0,
                                 !.swaps = 0,
                                 !.pass = @ + 1,
                                 !.end = @ - 1]
               /\ pc' = pc
    /\ touched' = {}
    /\ steps' = steps + 1
    /\ UNCHANGED <<data, v1, v2, v3, s, stack, out2, timevars>>

BubblePassEndNoShrink ==
    /\ pc = "bubble_loop"
    /\ ~BubbleInnerCond
    /\ out1' = Append(out1, [pass |-> b.pass, comparisons |-> b.comparisons,
                             swaps |-> b.swaps, end |-> b.end])
    /\ IF b.swaps = 0
          THEN /\ b' = [b EXCEPT !.e1 = 0, !.e2 = 0 + 1,
                                 !.swaps_total = @ + b.swaps,
                                 !.comparisons_total = @ + b.comparisons]
               /\ pc' = "bubble_done"
          ELSE /\ b' = [b EXCEPT !.e1 = 0, !.e2 = 0 + 1,
                                 !.swaps_total = @ + b.swaps,
                                 !.comparisons_total = @ + b.comparisons,
                                 !.comparisons = 0,
                                 !.swaps = 0,
                                 !.pass = @ + 1]
               /\ pc' = pc
    /\ touched' = {}
    /\ steps' = steps + 1
    /\ UNCHANGED <<data, v1, v2, v3, s, stack, out2, timevars>>

\* The end of a pass: the inner loop is over, the pass's statistics are
\* printed and added to the totals, and the sort either stops (no swap) or
\* prepares the next pass with the boundary one element lower.
BubblePassEnd ==
    /\ pc = "bubble_loop"
    /\ ~BubbleInnerCond
    /\ out1' = Append(out1, [pass |-> b.pass, comparisons |-> b.comparisons,
                             swaps |-> b.swaps, end |-> b.end])
    /\ IF b.swaps = 0
          THEN /\ b' = [b EXCEPT !.e1 = 0, !.e2 = 0 + 1,
                                 !.swaps_total = @ + b.swaps,
                                 !.comparisons_total = @ + b.comparisons]
               /\ pc' = "bubble_done"
          ELSE /\ b' = [b EXCEPT !.e1 = 0, !.e2 = 0 + 1,
                                 !.swaps_total = @ + b.swaps,
                                 !.comparisons_total = @ + b.comparisons,
                                 !.comparisons = 0,
                                 !.swaps = 0,
                                 !.pass = @ + 1,
                                 !.end = @ - 1]
               /\ pc' = pc
    /\ touched' = {}
    /\ steps' = steps + 1
    /\ UNCHANGED <<data, v1, v2, v3, s, stack, out2, timevars>>

\* The totals are printed and bubble_sort returns to its caller.
BubbleReturn ==
    /\ pc = "bubble_done"
    /\ pc' = "call_shuttle"
    /\ touched' = {}
    /\ steps' = steps + 1
    /\ UNCHANGED <<data, v1, v2, v3, b, s, stack, out1, out2, timevars>>

-----------------------------------------------------------------------------
(* shuttle_sort(v2) *)

\* The call and the declarations before the loop.
ShuttleEntry ==
    /\ pc = "call_shuttle"
    /\ s' = [e1 |-> 0 + 0, e2 |-> 0 + 0 + 1, start_index |-> 0,
             n |-> Len(v2), comparisons |-> 0, swaps |-> 0,
             swaps_total |-> 0, comparisons_total |-> 0, pass |-> 1]
    /\ pc' = "shuttle_outer"
    /\ touched' = {}
    /\ steps' = steps + 1
    /\ UNCHANGED <<data, v1, v2, v3, b, stack, out1, out2, timevars>>

\* while (pass <= n - 1) holds: the pass starts at the resume index.
ShuttlePassBegin ==
    /\ pc = "shuttle_outer"
    /\ s.pass <= s.n - 1
    /\ s' = [s EXCEPT !.e1 = 0 + s.start_index, !.e2 = 0 + s.start_index + 1]
    /\ pc' = "shuttle_inner"
    /\ touched' = {}
    /\ steps' = steps + 1
    /\ UNCHANGED <<data, v1, v2, v3, b, stack, out1, out2, timevars>>

ShuttleStepNoBreak ==
    /\ pc = "shuttle_inner"
    /\ IF s.e2 # Len(v2)
          THEN LET swap == Less(At(v2, s.e2), At(v2, s.e1))
               IN  /\ v2' = IF swap THEN Swap(v2, s.e1, s.e2) ELSE v2
                   /\ touched' = {s.e1, s.e2}
                   /\ IF s.e1 = 0
                         THEN /\ s' = [s EXCEPT !.comparisons = @ + 1,
                                                !.swaps = IF swap THEN @ + 1 ELSE @]
                              /\ pc' = "shuttle_pass_end"
                         ELSE /\ s' = [s EXCEPT !.comparisons = @ + 1,
                                                !.swaps = IF swap THEN @ + 1 ELSE @,
                                                !.e1 = @ - 1,
                                                !.e2 = @ - 1]
                              /\ pc' = pc
          ELSE /\ pc' = "shuttle_pass_end"
               /\ touched' = {}
               /\ UNCHANGED <<v2, s>>
    /\ steps' = steps + 1
    /\ UNCHANGED <<data, v1, v3, b, stack, out1, out2, timevars>>

\* One test of the inner loop's condition, while (e2 != v.end()), and, when
\* it holds, one iteration: compare; out of order: swap, and stop at the top
\* of the list or else move one place up; in order: break.
ShuttleStep ==
    /\ pc = "shuttle_inner"
    /\ IF s.e2 # Len(v2)
          THEN IF Less(At(v2, s.e2), At(v2, s.e1))
                  THEN /\ v2' = Swap(v2, s.e1, s.e2)
                       /\ touched' = {s.e1, s.e2}
                       /\ IF s.e1 = 0
                             THEN /\ s' = [s EXCEPT !.comparisons = @ + 1,
                                                    !.swaps = @ + 1]
                                  /\ pc' = "shuttle_pass_end"
                             ELSE /\ s' = [s EXCEPT !.comparisons = @ + 1,
                                                    !.swaps = @ + 1,
                                                    !.e1 = @ - 1,
                                                    !.e2 = @ - 1]
                                  /\ pc' = pc
                  ELSE /\ s' = [s EXCEPT !.comparisons = @ + 1]
                       /\ touched' = {s.e1, s.e2}
                       /\ pc' = "shuttle_pass_end"
                       /\ v2' = v2
          ELSE /\ pc' = "shuttle_pass_end"
               /\ touched' = {}
               /\ UNCHANGED <<v2, s>>
    /\ steps' = steps + 1
    /\ UNCHANGED <<data, v1, v3, b, stack, out1, out2, timevars>>

ShuttlePassEndEarlyExit ==
    /\ pc = "shuttle_pass_end"
    /\ out2' = Append(out2, [pass |-> s.pass, comparisons |-> s.comparisons,
                             swaps |-> s.swaps, start_index |-> s.start_index])
    /\ s' = [s EXCEPT !.swaps_total = @ + s.swaps,
                      !.comparisons_total = @ + s.comparisons,
                      !.start_index = @ + 1,
                      !.comparisons = 0,
                      !.swaps = 0,
                      !.pass = IF s.swaps = 0 THEN s.n ELSE @ + 1]
    /\ pc' = "shuttle_outer"
    /\ touched' = {}
    /\ steps' = steps + 1
    /\ UNCHANGED <<data, v1, v2, v3, b, stack, out1, timevars>>

\* The end of a pass: totals, the resume index moves on, the pass's
\* statistics are printed, the pass counter moves on.
ShuttlePassEnd ==
    /\ pc = "shuttle_pass_end"
    /\ out2' = Append(out2, [pass |-> s.pass, comparisons |-> s.comparisons,
                             swaps |-> s.swaps, start_index |-> s.start_index])
    /\ s' = [s EXCEPT !.swaps_total = @ + s.swaps,
                      !.comparisons_total = @ + s.comparisons,
                      !.start_index = @ + 1,
                      !.comparisons = 0,
                      !.swaps = 0,
                      !.pass = @ + 1]
    /\ pc' = "shuttle_outer"
    /\ touched' = {}
    /\ steps' = steps + 1
    /\ UNCHANGED <<data, v1, v2, v3, b, stack, out1, timevars>>

\* while (pass <= n - 1) fails: the totals are printed and shuttle_sort
\* returns to its caller.
ShuttleReturn ==
    /\ pc = "shuttle_outer"
    /\ ~(s.pass <= s.n - 1)
    /\ pc' = "call_quick"
    /\ touched' = {}
    /\ steps' = steps + 1
    /\ UNCHANGED <<data, v1, v2, v3, b, s, stack, out1, out2, timevars>>

-----------------------------------------------------------------------------
(* quick_sort(v3, v3.begin(), v3.end() - 1) *)

\* The activation record of quick_sort(v, start, end): the arguments, the
\* three iterators with their initial values, and where the call stands.
\* Three fields observe the call without taking part in it: the vector and
\* the pivot's value as they were on entry, and the number of iterations of
\* the partition loop so far.
Frame(start, end) ==
    [start |-> start, end |-> end,
     pivot_it |-> end, e1 |-> start, e2 |-> end - 1,
     at |-> "entry",
     entry_v |-> v3, pivot_val |-> At(v3, end), iters |-> 0]

Top == Head(stack)

\* The top-level call made by test_sorting_algorithms.
QuickSortCall ==
    /\ pc = "call_quick"
    /\ stack' = <<Frame(0, Len(v3) - 1)>>
    /\ pc' = "quick"
    /\ touched' = {}
    /\ steps' = steps + 1
    /\ UNCHANGED <<data, v1, v2, v3, b, s, out1, out2, timevars>>

\* if (end - start < 1) return;
QuickBaseCase ==
    /\ pc = "quick"
    /\ Top.at = "entry"
    /\ IF Top.end - Top.start < 1
          THEN /\ stack' = Tail(stack)
               /\ pc' = IF Tail(stack) = <<>> THEN "done" ELSE pc
          ELSE /\ stack' = <<[Top EXCEPT !.at = "loop"]>> \o Tail(stack)
               /\ pc' = pc
    /\ touched' = {}
    /\ steps' = steps + 1
    /\ UNCHANGED <<data, v1, v2, v3, b, s, out1, out2, timevars>>

\* tmp = *e1; *e1 = *e2; *e2 = *pivot_it; *pivot_it = tmp;
Rotate(v, e1, e2, pivot_it) ==
    LET tmp == At(v, e1)
        w1 == Put(v, e1, At(v, e2))
        w2 == Put(w1, e2, At(w1, pivot_it))
    IN  Put(w2, pivot_it, tmp)

\* One iteration of the partition loop, while (e1 != pivot_it): an element
\* greater than the pivot goes to the pivot's place, the pivot one place to
\* the left, and the element that was there to the scanned place, which is
\* scanned again; any other element is passed over.
QuickPartitionStep ==
    /\ pc = "quick"
    /\ Top.at = "loop"
    /\ Top.e1 # Top.pivot_it
    /\ IF Greater(At(v3, Top.e1), At(v3, Top.pivot_it))
          THEN /\ v3' = Rotate(v3, Top.e1, Top.e2, Top.pivot_it)
               /\ stack' = <<[Top EXCEPT !.pivot_it = Top.e2,
                                         !.e2 = Top.e2 - 1,
                                         !.iters = @ + 1]>> \o Tail(stack)
               /\ touched' = {Top.e1, Top.e2, Top.pivot_it}
          ELSE /\ v3' = v3
               /\ stack' = <<[Top EXCEPT !.e1 = @ + 1,
                                         !.iters = @ + 1]>> \o Tail(stack)
               /\ touched' = {Top.e1, Top.pivot_it}
    /\ steps' = steps + 1
    /\ UNCHANGED <<data, v1, v2, pc, b, s, out1, out2, timevars>>

QuickRecurseRightFromPivot ==
    /\ pc = "quick"
    /\ Top.at = "loop"
    /\ Top.e1 = Top.pivot_it
    /\ stack' = <<Frame(Top.pivot_it, Top.end),
                  [Top EXCEPT !.at = "right"]>> \o Tail(stack)
    /\ touched' = {}
    /\ steps' = steps + 1
    /\ UNCHANGED <<data, v1, v2, v3, pc, b, s, out1, out2, timevars>>

\* The loop is over: quick_sort(v, pivot_it + 1, end);
QuickRecurseRight ==
    /\ pc = "quick"
    /\ Top.at = "loop"
    /\ Top.e1 = Top.pivot_it
    /\ stack' = <<Frame(Top.pivot_it + 1, Top.end),
                  [Top EXCEPT !.at = "right"]>> \o Tail(stack)
    /\ touched' = {}
    /\ steps' = steps + 1
    /\ UNCHANGED <<data, v1, v2, v3, pc, b, s, out1, out2, timevars>>

\* The first recursive call has returned: quick_sort(v, start, e2);
QuickRecurseLeft ==
    /\ pc = "quick"
    /\ Top.at = "right"
    /\ stack' = <<Frame(Top.start, Top.e2),
                  [Top EXCEPT !.at = "left"]>> \o Tail(stack)
    /\ touched' = {}
    /\ steps' = steps + 1
    /\ UNCHANGED <<data, v1, v2, v3, pc, b, s, out1, out2, timevars>>

\* The second recursive call has returned, and so does this call.
QuickReturn ==
    /\ pc = "quick"
    /\ Top.at = "left"
    /\ stack' = Tail(stack)
    /\ pc' = IF Tail(stack) = <<>> THEN "done" ELSE pc
    /\ touched' = {}
    /\ steps' = steps + 1
    /\ UNCHANGED <<data, v1, v2, v3, b, s, out1, out2, timevars>>

-----------------------------------------------------------------------------
(* timevaldiff(&t1, &t2) *)

\* A struct timeval is a pair <<tv_sec, tv_usec>>.
Sec(t) == t[1]
USec(t) == t[2]

\* The tv_usec values tried: both ends of the range, both sides of a whole
\* millisecond, and values in between.
USecSamples == {0, 1, 499, 999, 1000, 1001, 500000, 999000, 999001, 999999}

Timevals == (0..MaxSec) \X USecSamples

\* The microseconds from time 0 to t.
TotalUSec(t) == Sec(t) * 1000000 + USec(t)

\* The division of C's long: the quotient is truncated towards zero.
CDiv(x, y) == IF x >= 0 THEN x \div y ELSE -((-x) \div y)

\* msec = (finishtime->tv_sec - starttime->tv_sec) * 1000;
\* msec += (finishtime->tv_usec - starttime->tv_usec) / 1000;
timevaldiff(starttime, finishtime) ==
    (Sec(finishtime) - Sec(starttime)) * MSecPerSec
        + CDiv(USec(finishtime) - USec(starttime), USecPerMSec)

\* Two readings of the clock, the second not earlier than the first; the
\* sorts play no part.
InitTime ==
    /\ t1 \in Timevals
    /\ t2 \in {t \in Timevals : TotalUSec(t) >= TotalUSec(t1)}
    /\ msec = 0
    /\ tpc = "call_timevaldiff"
    /\ data = <<>>
    /\ v1 = <<>>
    /\ v2 = <<>>
    /\ v3 = <<>>
    /\ pc = "idle"
    /\ b = BubbleLocals
    /\ s = ShuttleLocals
    /\ stack = <<>>
    /\ out1 = <<>>
    /\ out2 = <<>>
    /\ touched = {}
    /\ steps = 0

\* The call: the result is what the caller prints.
TimevalDiffCall ==
    /\ tpc = "call_timevaldiff"
    /\ msec' = timevaldiff(t1, t2)
    /\ tpc' = "done"
    /\ UNCHANGED <<t1, t2, sortvars>>

NextTime == TimevalDiffCall

SpecTime == InitTime /\ [][NextTime]_vars

-----------------------------------------------------------------------------
Next ==
    \/ BubbleEntry
    \/ BubbleCompare
    \/ BubblePassEnd
    \/ BubbleReturn
    \/ ShuttleEntry
    \/ ShuttlePassBegin
    \/ ShuttleStep
    \/ ShuttlePassEnd
    \/ ShuttleReturn
    \/ QuickSortCall
    \/ QuickBaseCase
    \/ QuickPartitionStep
    \/ QuickRecurseRight
    \/ QuickRecurseLeft
    \/ QuickReturn

Spec == Init /\ [][Next]_vars

-----------------------------------------------------------------------------
(* What the claims speak of. *)

N == Len(data)

\* Where the run stands with respect to each sort.
BubbleDone == pc \in {"bubble_done", "call_shuttle", "shuttle_outer",
                      "shuttle_inner", "shuttle_pass_end", "call_quick",
                      "quick", "done"}
ShuttleDone == pc \in {"call_quick", "quick", "done"}
QuickDone == pc = "done"

\* v is non-decreasing under the ordering of the elements.
NonDecreasing(v) == \A i \in 1..(Len(v) - 1) : ~Less(v[i + 1], v[i])

\* v and w hold the same elements, each as many times.
Occurrences(v, x) == Cardinality({i \in 1..Len(v) : v[i] = x})
SameMultiset(v, w) ==
    /\ Len(v) = Len(w)
    /\ \A i \in 1..Len(w) : Occurrences(v, w[i]) = Occurrences(w, w[i])

\* Elements with equal keys stand in v in the order of the input.
Stable(v) ==
    \A i, j \in 1..Len(v) :
        (i < j /\ Key(v[i]) = Key(v[j])) => Tag(v[i]) < Tag(v[j])

StrictlyDescending(v) == \A i \in 1..(Len(v) - 1) : Key(v[i]) > Key(v[i + 1])

Pairs(n) == (n * (n - 1)) \div 2
Max(x, y) == IF x >= y THEN x ELSE y

\* The most steps a whole run over n elements can take: the calls, loop
\* iterations, pass ends and returns of the three sorts.
StepBound(n) == 6 + 3 * Pairs(n) + Max(n, 1) + 7 * Max(n - 1, 0)

\* C1: for every input, bubble_sort, shuttle_sort and the top-level
\* quick_sort each terminate (the run never stops before its end and takes
\* a bounded number of steps) with their vector a permutation of the input
\* that is non-decreasing under the element ordering.
C1_SortedPermutation ==
    /\ BubbleDone => (SameMultiset(v1, data) /\ NonDecreasing(v1))
    /\ ShuttleDone => (SameMultiset(v2, data) /\ NonDecreasing(v2))
    /\ QuickDone => (SameMultiset(v3, data) /\ NonDecreasing(v3))
    /\ steps <= StepBound(N)
    /\ (pc # "done") => ENABLED Next

C1_Witness ==
    /\ pc = "done"
    /\ N >= 3
    /\ ~NonDecreasing(data)
    /\ \E i \in 1..(N - 1) : Key(data[i]) = Key(data[i + 1])
    /\ v1 # data /\ v2 # data /\ v3 # data

\* C2: bubble_sort and shuttle_sort are stable: elements with equal keys
\* leave in the order in which they came, and a step changes the vector
\* only when the right element of the pair is strictly less than the left.
C2_StableInv ==
    /\ BubbleDone => Stable(v1)
    /\ ShuttleDone => Stable(v2)

C2_SwapOnlyIfLess ==
    /\ v1' # v1 => Key(At(v1, b.e2)) < Key(At(v1, b.e1))
    /\ v2' # v2 => Key(At(v2, s.e2)) < Key(At(v2, s.e1))

C2_Stable == []C2_StableInv /\ [][C2_SwapOnlyIfLess]_vars

C2_Witness ==
    /\ pc = "done"
    /\ b.swaps_total > 0
    /\ s.swaps_total > 0
    /\ \E i, j \in 1..N : i < j /\ Key(data[i]) = Key(data[j])
                          /\ \E k \in 1..N : i < k /\ k < j /\ Key(data[k]) < Key(data[i])

\* C3: on an input of length 0 or 1 no step of any of the three sorts
\* dereferences a position, the vectors stay as they were, every sort
\* reaches its end, and bubble_sort and shuttle_sort count no comparison
\* and no swap.
C3_ShortInput ==
    N <= 1 =>
        /\ touched = {}
        /\ v1 = data /\ v2 = data /\ v3 = data
        /\ BubbleDone => (b.comparisons_total = 0 /\ b.swaps_total = 0)
        /\ ShuttleDone => (s.comparisons_total = 0 /\ s.swaps_total = 0)
        /\ (pc # "done") => ENABLED Next

C3_Witness == pc = "done" /\ N = 1 /\ v3 = data /\ out1 # <<>>

\* C4: on a strictly descending input of length n, bubble_sort's total of
\* swaps is n * (n - 1) / 2.
C4_ReverseSwaps ==
    (BubbleDone /\ StrictlyDescending(data)) => b.swaps_total = Pairs(N)

C4_Witness ==
    BubbleDone /\ StrictlyDescending(data) /\ N >= 4 /\ b.swaps_total = 6

\* C5: for n >= 1 shuttle_sort runs exactly n - 1 passes, pass p from
\* resume index p - 1, whatever the input holds: a pass without a swap does
\* not end the sort.
C5_ShuttlePasses ==
    /\ \A p \in 1..Len(out2) : out2[p].pass = p /\ out2[p].start_index = p - 1
    /\ pc \in {"shuttle_outer", "shuttle_inner", "shuttle_pass_end"} =>
           /\ s.pass = Len(out2) + 1
           /\ s.start_index = s.pass - 1
    /\ (ShuttleDone /\ N >= 1) => Len(out2) = N - 1

C5_Witness ==
    /\ ShuttleDone
    /\ N >= 4
    /\ out2[1].swaps = 0
    /\ out2[2].swaps = 0
    /\ Len(out2) = 3

\* C6: for a finish time not earlier than the start time, timevaldiff
\* returns the elapsed microseconds divided by 1000 and rounded down.
C6_ElapsedMillis ==
    tpc = "done" => msec = (TotalUSec(t2) - TotalUSec(t1)) \div 1000

\* C7: bubble_sort stops at the end of the first pass without a swap: every
\* pass before it swapped, the boundary of pass p is n - (p - 1), the sort
\* goes on until that pass, and for n >= 1 there are at most n passes.
C7_BubblePasses ==
    /\ \A p \in 1..Len(out1) : out1[p].pass = p /\ out1[p].end = N - (p - 1)
    /\ \A p \in 1..(Len(out1) - 1) : out1[p].swaps > 0
    /\ pc = "bubble_loop" =>
           /\ \A p \in 1..Len(out1) : out1[p].swaps > 0
           /\ b.pass = Len(out1) + 1
           /\ b.end = N - Len(out1)
           /\ ENABLED Next
    /\ BubbleDone =>
           /\ Len(out1) >= 1
           /\ out1[Len(out1)].swaps = 0
           /\ b.pass = Len(out1)
           /\ N >= 1 => Len(out1) <= N

C7_Witness ==
    /\ BubbleDone
    /\ Len(out1) = 3
    /\ N = 4
    /\ out1[2].end = 3
    /\ out1[3].end = 2

\* The positions a call's range holds, and how many.
Range(f) == f.start..f.end
Size(f) == Max(f.end - f.start + 1, 0)

\* C8: when the partition loop of a call on at least two elements ends, the
\* pivot's place p holds the value that was at end on entry, no element of
\* [start, p) is greater than it and every element of (p, end] is; the loop
\* has made end - start iterations, each of which moved either the
\* scanning position one place right or the pivot one place left.
C8_PartitionInv ==
    (pc = "quick" /\ stack # <<>> /\ Top.at = "loop") =>
        /\ Top.iters = (Top.e1 - Top.start) + (Top.end - Top.pivot_it)
        /\ Top.e1 <= Top.pivot_it
        /\ Top.e1 = Top.pivot_it =>
               /\ Top.iters = Top.end - Top.start
               /\ At(v3, Top.pivot_it) = Top.pivot_val
               /\ Top.pivot_val = At(Top.entry_v, Top.end)
               /\ \A i \in Top.start..(Top.pivot_it - 1) :
                      Key(At(v3, i)) <= Key(Top.pivot_val)
               /\ \A i \in (Top.pivot_it + 1)..Top.end :
                      Key(At(v3, i)) > Key(Top.pivot_val)

C8_IterationShape ==
    (pc = "quick" /\ stack # <<>> /\ Top.at = "loop" /\ Top.e1 # Top.pivot_it) =>
        LET f == Head(stack')
        IN  /\ Len(stack') = Len(stack)
            /\ f.iters = Top.iters + 1
            /\ \/ f.e1 = Top.e1 + 1 /\ f.pivot_it = Top.pivot_it
               \/ f.e1 = Top.e1 /\ f.pivot_it = Top.pivot_it - 1

C8_Partition == []C8_PartitionInv /\ [][C8_IterationShape]_vars

C8_Witness ==
    /\ pc = "quick" /\ stack # <<>> /\ Top.at = "loop"
    /\ Top.e1 = Top.pivot_it
    /\ Top.start = 0 /\ Top.end = 3
    /\ Top.pivot_it = 2
    /\ v3 # Top.entry_v
    /\ \E i \in 0..1 : Key(At(v3, i)) = Key(Top.pivot_val)

\* C9: a step of a quick_sort call dereferences only positions of the
\* call's [start, end], all of them positions of the vector; as long as a
\* call is active the elements outside its [start, end] are those of its
\* entry; and a call made by a call with pivot place p is on [p + 1, end]
\* or on [start, p - 1], p being in [start, end], so on fewer elements.
C9_QuickFrame ==
    pc = "quick" =>
        /\ touched \subseteq (Range(Top) \cap (0..(Len(v3) - 1)))
        /\ \A k \in 1..Len(stack) :
               \A i \in (0..(Len(v3) - 1)) \ Range(stack[k]) :
                   At(v3, i) = At(stack[k].entry_v, i)
        /\ \A k \in 1..(Len(stack) - 1) :
               LET callee == stack[k]
                   caller == stack[k + 1]
                   p == caller.pivot_it
               IN  /\ caller.at \in {"right", "left"}
                   /\ p \in Range(caller)
                   /\ caller.at = "right" =>
                          (callee.start = p + 1 /\ callee.end = caller.end)
                   /\ caller.at = "left" =>
                          (callee.start = caller.start /\ callee.end = p - 1)
                   /\ Size(callee) < Size(caller)

C9_Witness ==
    /\ pc = "quick"
    /\ Len(stack) = 2
    /\ stack[2].at = "right"
    /\ Top.start > 0
    /\ Cardinality(touched) = 3
    /\ v3 # Top.entry_v

\* C10: on every input shuttle_sort's total of comparisons is at most
\* bubble_sort's.
C10_FewerComparisons ==
    ShuttleDone => s.comparisons_total <= b.comparisons_total

C10_Witness ==
    /\ ShuttleDone
    /\ N = 4
    /\ s.comparisons_total < b.comparisons_total
    /\ s.swaps_total > 0

=============================================================================
